---- MODULE Spec2Model ----
(***************************************************************************)
(* Layered buffer entities of tfhe core_crypto::commons: the Split         *)
(* partitioning of borrowed slices, GlweList, GgswLevelMatrix and          *)
(* GgswLevelRow over a flat tensor, with their sequential and parallel     *)
(* sub-region iteration.                                                   *)
(*                                                                         *)
(* A buffer is a sequence of elements; index i of the Rust slice is        *)
(* position i+1 of the sequence.  A borrowed sub-region is the pair        *)
(* lo, hi of Rust indices [lo, hi) into its parent buffer: it is never a   *)
(* copy.  A call that trips a debug assertion or a standard-library panic  *)
(* returns a record with panic = TRUE and the run stops.                   *)
(***************************************************************************)
EXTENDS Integers, Sequences, FiniteSets, TLC

\* ----------------------------------------------------------------- bounds
MaxLen == 6
MaxPolySize == 2
MaxGlweDimension == 1
MaxCount == 2
MaxLevel == 1
MaxChunk == 4
NumWorkers == 2
ElemBits == 3
UsizeBits == 3

Modulus == 2 ^ ElemBits
Elem == 0..(Modulus - 1)

\* Caller buffers: a ramp (all elements distinct while n <= Modulus) and zeros.
Ramp(n) == [i \in 1..n |-> (i - 1) % Modulus]
Zeros(n) == [i \in 1..n |-> 0]
Containers == {Ramp(n) : n \in 0..MaxLen} \cup {Zeros(n) : n \in 0..MaxLen}
\* Plaintexts handed to trivial encryption: descending from Modulus - 1.
PlaintextLists == {[i \in 1..n |-> (2 * Modulus - i) % Modulus] : n \in 0..MaxLen}

PolynomialSizes == 1..MaxPolySize
GlweDimensions == 0..MaxGlweDimension
GlweSizes == 1..(MaxGlweDimension + 1)
CiphertextCounts == 0..MaxCount
DecompositionLevels == 1..MaxLevel
Workers == 1..NumWorkers
\* Constants written by the fill loops.
FillValues == {0, Modulus - 1}
\* Second operands of the binary Tensor operations: 0, Modulus - 1, Modulus - 2, ...
Operands == {[i \in 1..n |-> (Modulus + 1 - i) % Modulus] : n \in 0..MaxLen}
\* usize, UsizeBits wide: the bounds given to the test tools and the values
\* their random generator draws.
UsizeModulus == 2 ^ UsizeBits
Usize == 0..(UsizeModulus - 1)
\* Functions handed to fill_with_two.
BinaryOps == {"wrapping_add", "wrapping_mul"}

VARIABLES
    checked,  \* the build has debug assertions (debug_assert!) enabled
    cont,     \* the caller's container, until a from_container takes it
    list,     \* the GlweList: tensor, rlwe_size, poly_size
    matrix,   \* the GgswLevelMatrix: tensor, poly_size, glwe_size, level
    row,      \* the GgswLevelRow built from a container: tensor, poly_size, level
    glwe,     \* the GlweCiphertext returned by into_glwe: tensor, poly_size
    tens,     \* the Tensor: an owned buffer, or the mutable borrow of cont
    glwe_body, \* the GlweBody borrowed from glwe: the region lo, hi of its tensor
    out,      \* what the last call returned, or that it panicked
    job       \* the loop over mutable sub-regions that is running

vars == <<checked, cont, list, matrix, row, glwe, tens, glwe_body, out, job>>

\* ---------------------------------------------------------------- helpers
Ok(v) == [panic |-> FALSE, val |-> v]
Panicked == [panic |-> TRUE, val |-> 0]
None == <<>>
Some(x) == <<x>>
Min(a, b) == IF a <= b THEN a ELSE b
Range(lo, hi) == lo..(hi - 1)
Slice(buf, lo, hi) == SubSeq(buf, lo + 1, hi)

RECURSIVE Concat(_, _)
Concat(buf, views) ==
    IF views = <<>> THEN <<>>
    ELSE Slice(buf, Head(views).lo, Head(views).hi) \o Concat(buf, Tail(views))

\* debug_assert!: evaluated in a checked build only.
DebugAssert(cond) == (~checked) \/ cond

\* ck_dim_div!(tensor_size => sizes...): every size divides tensor_size.
ck_dim_div(tensor_size, sizes) ==
    \A i \in 1..Len(sizes) : sizes[i] # 0 /\ tensor_size % sizes[i] = 0

\* The target only has to be as long as the other operands.
ck_dim_eq_no_shorter(tensor_size, sizes) ==
    \A i \in 1..Len(sizes) : tensor_size >= sizes[i]

\* The sizes are compared one off.
ck_dim_eq_off_by_one(tensor_size, sizes) ==
    \A i \in 1..Len(sizes) : tensor_size = sizes[i] + 1

\* ck_dim_eq!(tensor_size => sizes...): every size equals tensor_size.
ck_dim_eq(tensor_size, sizes) ==
    \A i \in 1..Len(sizes) : tensor_size = sizes[i]

\* ------------------------------------------------------------------ Split
\* Off by one: the chunks start one chunk late.
chunks_exact_skips_first(len, chunk_size) ==
    IF chunk_size = 0 THEN Panicked
    ELSE Ok([i \in 1..(len \div chunk_size) |->
                [lo |-> i * chunk_size, hi |-> (i + 1) * chunk_size]])

\* The chunks are yielded from the back of the buffer.
chunks_exact_reversed(len, chunk_size) ==
    IF chunk_size = 0 THEN Panicked
    ELSE LET n == len \div chunk_size
         IN  Ok([i \in 1..n |-> [lo |-> (n - i) * chunk_size, hi |-> (n - i + 1) * chunk_size]])

\* The elements left over form a last, shorter chunk.
chunks_exact_keeps_remainder(len, chunk_size) ==
    IF chunk_size = 0 THEN Panicked
    ELSE Ok([i \in 1..((len + chunk_size - 1) \div chunk_size) |->
                [lo |-> (i - 1) * chunk_size, hi |-> Min(i * chunk_size, len)]])

\* core::slice::chunks_exact: panics on a zero chunk size, else yields the
\* floor(len / chunk_size) full chunks in buffer order and drops the remainder.
chunks_exact(len, chunk_size) ==
    IF chunk_size = 0 THEN Panicked
    ELSE Ok([i \in 1..(len \div chunk_size) |->
                [lo |-> (i - 1) * chunk_size, hi |-> i * chunk_size]])

into_chunks(len, chunk_size) ==
    IF checked /\ chunk_size = 0 THEN Panicked
    ELSE IF checked /\ len % chunk_size # 0 THEN Panicked
    ELSE chunks_exact(len, chunk_size)

\* The zero-count branch has lost its assertion.
split_into_zero_unasserted(len, chunk_count) ==
    IF chunk_count = 0 THEN chunks_exact(len, 1)
    ELSE IF ~DebugAssert(len % chunk_count = 0) THEN Panicked
         ELSE chunks_exact(len, len \div chunk_count)

split_into(len, chunk_count) ==
    IF chunk_count = 0
    THEN IF ~DebugAssert(len = 0) THEN Panicked ELSE chunks_exact(len, 1)
    ELSE IF ~DebugAssert(len % chunk_count = 0) THEN Panicked
         ELSE chunks_exact(len, len \div chunk_count)

\* Split::Chunks = core::slice::ChunksExact, pulled one chunk at a time: the
\* iterator is the part [lo, hi) of the buffer not yet yielded, the remainder
\* being cut off when it is built.
ChunksExact_new(len, chunk_size) ==
    [lo |-> 0, hi |-> len - (len % chunk_size), chunk_size |-> chunk_size]

\* ExactSizeIterator::len
ChunksExact_len(it) == (it.hi - it.lo) \div it.chunk_size

\* Iterator::next
ChunksExact_next(it) ==
    IF it.hi - it.lo < it.chunk_size THEN [none |-> TRUE, it |-> it]
    ELSE [none |-> FALSE, it |-> [it EXCEPT !.lo = @ + it.chunk_size],
          chunk |-> [lo |-> it.lo, hi |-> it.lo + it.chunk_size]]

\* The last chunk is yielded but stays in the iterator.
ChunksExact_next_back_not_consumed(it) ==
    IF it.hi - it.lo < it.chunk_size THEN [none |-> TRUE, it |-> it]
    ELSE [none |-> FALSE, it |-> it,
          chunk |-> [lo |-> it.hi - it.chunk_size, hi |-> it.hi]]

\* DoubleEndedIterator::next_back
ChunksExact_next_back(it) ==
    IF it.hi - it.lo < it.chunk_size THEN [none |-> TRUE, it |-> it]
    ELSE [none |-> FALSE, it |-> [it EXCEPT !.hi = @ - it.chunk_size],
          chunk |-> [lo |-> it.hi - it.chunk_size, hi |-> it.hi]]

\* ----------------------------------------------------------------- Tensor
\* Tensor::len: the length of the wrapped container.
tensor_len(tensor) == Len(tensor)

\* Tensor::subtensor_iter / subtensor_iter_mut / par_subtensor_iter_mut: one
\* sub-tensor per contiguous size-length region, in buffer order; the length
\* must be a multiple of size (debug assertion).
subtensor_iter(len, size) ==
    IF size = 0 THEN Panicked
    ELSE IF ~DebugAssert(len % size = 0) THEN Panicked
    ELSE Ok([i \in 1..(len \div size) |-> [lo |-> (i - 1) * size, hi |-> i * size]])

\* Tensor::allocate: size copies of value in a fresh owned buffer.
Tensor_allocate(value, size) == [i \in 1..size |-> value]

\* AsRefSlice::as_slice of the container of t: the owned buffer, or the
\* caller's buffer behind the mutable borrow.
Tensor_as_slice(t) == IF t.borrowed THEN cont[1] ELSE t.buf

\* AsMutSlice::as_mut_slice of the container of the Tensor, left holding data.
Tensor_store(data) ==
    IF tens[1].borrowed
    THEN cont' = Some(data) /\ tens' = tens
    ELSE tens' = Some([tens[1] EXCEPT !.buf = data]) /\ cont' = cont

wrapping_add(a, b) == (a + b) % Modulus

wrapping_mul(a, b) == (a * b) % Modulus

apply(f, a, b) == IF f = "wrapping_add" THEN wrapping_add(a, b) ELSE wrapping_mul(a, b)

\* Tensor::update_with_wrapping_add on the elements of the target: the
\* equal-length assertion, then target and other combined pairwise.
Tensor_update_with_wrapping_add(target, other) ==
    IF ~DebugAssert(ck_dim_eq(tensor_len(target), <<tensor_len(other)>>)) THEN Panicked
    ELSE Ok([i \in 1..Len(target) |->
                IF i <= Len(other) THEN wrapping_add(target[i], other[i]) ELSE target[i]])

\* Tensor::fill_with_two: the equal-length assertion, then f of t1 and t2
\* pairwise into the target.
Tensor_fill_with_two(target, t1, t2, f) ==
    IF ~DebugAssert(ck_dim_eq(tensor_len(target), <<tensor_len(t1), tensor_len(t2)>>))
    THEN Panicked
    ELSE Ok([i \in 1..Len(target) |->
                IF i <= Min(Len(t1), Len(t2)) THEN apply(f, t1[i], t2[i]) ELSE target[i]])

\* --------------------------------------------------------------- GlweList
\* The buffer is sized with the dimension where the size is meant.
GlweList_allocate_dimension_for_size(value, poly_size, glwe_dimension, ciphertext_number) ==
    [tensor |-> [i \in 1..(poly_size * glwe_dimension * ciphertext_number) |-> value],
     rlwe_size |-> glwe_dimension + 1,
     poly_size |-> poly_size]

GlweList_allocate(value, poly_size, glwe_dimension, ciphertext_number) ==
    [tensor |-> [i \in 1..(poly_size * (glwe_dimension + 1) * ciphertext_number) |-> value],
     rlwe_size |-> glwe_dimension + 1,
     poly_size |-> poly_size]

\* The dimension is stored where the size is meant.
GlweList_from_container_dimension_for_size(c, rlwe_dimension, poly_size) ==
    IF ~DebugAssert(ck_dim_div(tensor_len(c), <<rlwe_dimension + 1, poly_size>>))
    THEN Panicked
    ELSE Ok([tensor |-> c, rlwe_size |-> rlwe_dimension, poly_size |-> poly_size])

GlweList_from_container(c, rlwe_dimension, poly_size) ==
    IF ~DebugAssert(ck_dim_div(tensor_len(c), <<rlwe_dimension + 1, poly_size>>))
    THEN Panicked
    ELSE Ok([tensor |-> c, rlwe_size |-> rlwe_dimension + 1, poly_size |-> poly_size])

GlweList_polynomial_size(l) == l.poly_size

GlweList_glwe_size(l) == l.rlwe_size

GlweList_glwe_dimension(l) == l.rlwe_size - 1

GlweList_ciphertext_count(l) ==
    IF ~DebugAssert(ck_dim_div(tensor_len(l.tensor), <<l.rlwe_size, l.poly_size>>))
    THEN Panicked
    ELSE IF l.rlwe_size * GlweList_polynomial_size(l) = 0 THEN Panicked
    ELSE Ok(tensor_len(l.tensor) \div (l.rlwe_size * GlweList_polynomial_size(l)))

\* GlweCiphertext::from_container over a borrowed sub-region.
GlweCiphertext_from_container(sub, poly_size) ==
    [lo |-> sub.lo, hi |-> sub.hi, poly_size |-> poly_size]

\* The stride forgets the GLWE size.
GlweList_chunks_size_one_polynomial(l) == GlweList_polynomial_size(l)

\* The stride of ciphertext_iter / ciphertext_iter_mut.
GlweList_chunks_size(l) == l.rlwe_size * GlweList_polynomial_size(l)

GlweList_ciphertext_iter(l) ==
    IF ~DebugAssert(ck_dim_div(tensor_len(l.tensor), <<l.rlwe_size, l.poly_size>>))
    THEN Panicked
    ELSE LET subs == subtensor_iter(tensor_len(l.tensor), GlweList_chunks_size(l))
         IN  IF subs.panic THEN Panicked
             ELSE Ok([i \in 1..Len(subs.val) |->
                         GlweCiphertext_from_container(subs.val[i], l.poly_size)])

\* The plaintext stride is a whole ciphertext instead of one polynomial.
GlweList_plaintext_count_whole_ciphertext(l) == l.rlwe_size * l.poly_size

\* PlaintextCount(self.poly_size.0): the stride of the plaintext sub-lists.
GlweList_plaintext_count(l) == l.poly_size

\* PlaintextList::count and PlaintextList::sublist_iter.
PlaintextList_count(plaintexts) == tensor_len(plaintexts)

PlaintextList_sublist_iter(plaintexts, count) == subtensor_iter(tensor_len(plaintexts), count)

\* GlweCiphertext::fill_with_trivial_encryption on the ciphertext ct of tensor:
\* the mask polynomials are zeroed and the body, the last polynomial of the
\* ciphertext, receives the plaintexts.
GlweCiphertext_body(ct) == [lo |-> ct.hi - ct.poly_size, hi |-> ct.hi]

GlweCiphertext_fill_with_trivial_encryption(tensor, ct, plaintext) ==
    LET body == GlweCiphertext_body(ct)
    IN  [k \in 1..Len(tensor) |->
            IF k - 1 \in Range(body.lo, body.hi) THEN plaintext[k - body.lo]
            ELSE IF k - 1 \in Range(ct.lo, body.lo) THEN 0
            ELSE tensor[k]]

\* The debug_assert_eq! opening GlweList::fill_with_trivial_encryption.
GlweList_trivial_precondition(l, plaintexts) ==
    LET count == GlweList_ciphertext_count(l)
    IN  /\ ~count.panic
        /\ PlaintextList_count(plaintexts) = l.poly_size * count.val

\* -------------------------------------------------------- GgswLevelMatrix
GgswLevelMatrix_from_container(c, poly_size, rlwe_size, level) ==
    IF ~DebugAssert(ck_dim_div(tensor_len(c), <<rlwe_size, poly_size>>))
    THEN Panicked
    ELSE Ok([tensor |-> c, poly_size |-> poly_size, glwe_size |-> rlwe_size, level |-> level])

GgswLevelMatrix_glwe_size(m) == m.glwe_size

GgswLevelMatrix_decomposition_level(m) == m.level

GgswLevelMatrix_polynomial_size(m) == m.poly_size

\* The length of the sub-region is not checked.
GgswLevelRow_from_container_unasserted(sub, poly_size, level) ==
    Ok([lo |-> sub.lo, hi |-> sub.hi, poly_size |-> poly_size, level |-> level])

\* The row keeps the first polynomial of its sub-region only.
GgswLevelRow_from_container_first_polynomial(sub, poly_size, level) ==
    IF ~DebugAssert(ck_dim_div(sub.hi - sub.lo, <<poly_size>>)) THEN Panicked
    ELSE Ok([lo |-> sub.lo, hi |-> sub.lo + poly_size, poly_size |-> poly_size, level |-> level])

\* GgswLevelRow::from_container over the sub-region sub of a buffer.
GgswLevelRow_from_container(sub, poly_size, level) ==
    IF ~DebugAssert(ck_dim_div(sub.hi - sub.lo, <<poly_size>>)) THEN Panicked
    ELSE Ok([lo |-> sub.lo, hi |-> sub.hi, poly_size |-> poly_size, level |-> level])

\* The division by the polynomial size is forgotten.
GgswLevelRow_glwe_size_undivided(r) ==
    IF ~DebugAssert(ck_dim_div(r.hi - r.lo, <<r.poly_size>>)) THEN Panicked
    ELSE Ok(r.hi - r.lo)

GgswLevelRow_glwe_size(r) ==
    IF ~DebugAssert(ck_dim_div(r.hi - r.lo, <<r.poly_size>>)) THEN Panicked
    ELSE IF r.poly_size = 0 THEN Panicked
    ELSE Ok((r.hi - r.lo) \div r.poly_size)

GgswLevelRow_decomposition_level(r) == r.level

GgswLevelRow_polynomial_size(r) == r.poly_size

\* The stride of row_iter / row_iter_mut / par_row_iter_mut.
GgswLevelMatrix_chunks_size(m) == m.poly_size * m.glwe_size

\* The rows are yielded from the back of the buffer.
GgswLevelMatrix_row_iter_from_the_back(m) ==
    LET subs == subtensor_iter(tensor_len(m.tensor), GgswLevelMatrix_chunks_size(m))
    IN  IF subs.panic THEN Panicked
        ELSE LET n == Len(subs.val)
                 rows == [i \in 1..n |->
                             GgswLevelRow_from_container(subs.val[n + 1 - i], m.poly_size, m.level)]
             IN  IF \E i \in 1..n : rows[i].panic THEN Panicked
                 ELSE Ok([i \in 1..n |-> rows[i].val])

GgswLevelMatrix_row_iter(m) ==
    LET subs == subtensor_iter(tensor_len(m.tensor), GgswLevelMatrix_chunks_size(m))
    IN  IF subs.panic THEN Panicked
        ELSE LET rows == [i \in 1..Len(subs.val) |->
                             GgswLevelRow_from_container(subs.val[i], m.poly_size, m.level)]
             IN  IF \E i \in 1..Len(rows) : rows[i].panic THEN Panicked
                 ELSE Ok([i \in 1..Len(rows) |-> rows[i].val])

\* Tensor::par_subtensor_iter_mut: the regions of subtensor_iter_mut, as an
\* indexed parallel iterator.
par_subtensor_iter_mut(len, size) == subtensor_iter(len, size)

\* The parallel stride forgets the GLWE size: one polynomial per item.
GgswLevelMatrix_par_row_iter_mut_polynomials(m) ==
    LET subs == par_subtensor_iter_mut(tensor_len(m.tensor), m.poly_size)
    IN  IF subs.panic THEN Panicked
        ELSE LET rows == [i \in 1..Len(subs.val) |->
                             GgswLevelRow_from_container(subs.val[i], m.poly_size, m.level)]
             IN  IF \E i \in 1..Len(rows) : rows[i].panic THEN Panicked
                 ELSE Ok([i \in 1..Len(rows) |-> rows[i].val])

GgswLevelMatrix_par_row_iter_mut(m) ==
    LET chunks_size == m.poly_size * m.glwe_size
        subs == par_subtensor_iter_mut(tensor_len(m.tensor), chunks_size)
    IN  IF subs.panic THEN Panicked
        ELSE LET rows == [i \in 1..Len(subs.val) |->
                             GgswLevelRow_from_container(subs.val[i], m.poly_size, m.level)]
             IN  IF \E i \in 1..Len(rows) : rows[i].panic THEN Panicked
                 ELSE Ok([i \in 1..Len(rows) |-> rows[i].val])

\* The level is passed where the polynomial size is meant.
GgswLevelRow_into_glwe_level_for_size(r) ==
    [tensor |-> r.tensor, lo |-> r.lo, hi |-> r.hi, poly_size |-> r.level]

\* GgswLevelRow::into_glwe: the same tensor and polynomial size, the level dropped.
GgswLevelRow_into_glwe(r) ==
    [tensor |-> r.tensor, lo |-> r.lo, hi |-> r.hi, poly_size |-> r.poly_size]

\* GlweCiphertext::polynomial_size and GlweCiphertext::size.
GlweCiphertext_polynomial_size(g) == g.poly_size

GlweCiphertext_size(g) == (g.hi - g.lo) \div g.poly_size

\* Tensor::fill_with_element, one element at a time: the write of offset pos.
fill_with_element_at(tensor, view, pos, c) == [tensor EXCEPT ![view.lo + pos + 1] = c]

\* for mut row in m.row_iter_mut() { row.as_mut_tensor().fill_with_element(c) }
RECURSIVE fill_rows(_, _, _)
fill_rows(tensor, rows, c) ==
    IF rows = <<>> THEN tensor
    ELSE fill_rows([k \in 1..Len(tensor) |->
                       IF k - 1 \in Range(Head(rows).lo, Head(rows).hi) THEN c ELSE tensor[k]],
                   Tail(rows), c)

\* ------------------------------------------------------------- test_tools
\* usize arithmetic: an overflow panics in a checked build and wraps in an
\* unchecked one; a remainder by zero panics in both.
usize_sub(a, b) ==
    IF a >= b THEN Ok(a - b)
    ELSE IF checked THEN Panicked
    ELSE Ok((a - b + UsizeModulus) % UsizeModulus)

usize_add(a, b) ==
    IF a + b < UsizeModulus THEN Ok(a + b)
    ELSE IF checked THEN Panicked
    ELSE Ok((a + b) % UsizeModulus)

usize_rem(a, b) == IF b = 0 THEN Panicked ELSE Ok(a % b)

\* assert_ne!(max, 0); (rng.gen::<usize>() % (max - low)) + low, where gen is
\* the value that the generator draws.
random_from(max, low, gen) ==
    IF max = 0 THEN Panicked
    ELSE LET width == usize_sub(max, low)
         IN  IF width.panic THEN Panicked
             ELSE LET offset == usize_rem(gen, width.val)
                  IN  IF offset.panic THEN Panicked ELSE usize_add(offset.val, low)

random_plaintext_count(max, gen) == random_from(max, 1, gen)

random_ciphertext_count(max, gen) == random_from(max, 1, gen)

random_lwe_dimension(max, gen) == random_from(max, 1, gen)

random_glwe_dimension(max, gen) == random_from(max, 1, gen)

random_polynomial_size(max, gen) == random_from(max, 2, gen)

random_base_log(max, gen) == random_from(max, 2, gen)

random_level_count(max, gen) == random_from(max, 2, gen)

\* The generators documented to return a value in [1; max], and in [2; max].
FromOne == {"random_plaintext_count", "random_ciphertext_count",
            "random_lwe_dimension", "random_glwe_dimension"}
FromTwo == {"random_polynomial_size", "random_base_log", "random_level_count"}

random(tool, max, gen) ==
    CASE tool = "random_plaintext_count" -> random_plaintext_count(max, gen)
      [] tool = "random_ciphertext_count" -> random_ciphertext_count(max, gen)
      [] tool = "random_lwe_dimension" -> random_lwe_dimension(max, gen)
      [] tool = "random_glwe_dimension" -> random_glwe_dimension(max, gen)
      [] tool = "random_polynomial_size" -> random_polynomial_size(max, gen)
      [] tool = "random_base_log" -> random_base_log(max, gen)
      [] tool = "random_level_count" -> random_level_count(max, gen)

\* --------------------------------------------------------------- GlweBody
\* AsRefTensor::as_tensor, AsMutTensor::as_mut_tensor and IntoTensor::into_tensor
\* as tensor_traits! implements them: the tensor field of the entity.
as_tensor(entity) == entity.tensor

as_mut_tensor(entity) == entity.tensor

\* The consuming view hands back a zeroed buffer in place of the entity's.
into_tensor_zeroed(entity) == [x \in DOMAIN entity.tensor |-> 0]

into_tensor(entity) == entity.tensor

\* Polynomial::from_container over a region, and Polynomial::polynomial_size:
\* the length of its tensor.
Polynomial_from_container(slice) == [tensor |-> [lo |-> slice.lo, hi |-> slice.hi]]

Polynomial_polynomial_size(poly) == poly.tensor.hi - poly.tensor.lo

GlweBody_into_polynomial(b) == Polynomial_from_container(into_tensor(b))

GlweBody_as_polynomial(b) == Polynomial_from_container(as_tensor(b))

\* The mutable polynomial misses the last element of the body.
GlweBody_as_mut_polynomial_without_last(b) ==
    Polynomial_from_container([lo |-> as_mut_tensor(b).lo, hi |-> as_mut_tensor(b).hi - 1])

GlweBody_as_mut_polynomial(b) == Polynomial_from_container(as_mut_tensor(b))

\* Tensor::fill_with_element on the region view of tensor.
fill_with_element(tensor, view, c) ==
    [k \in 1..Len(tensor) |-> IF k - 1 \in Range(view.lo, view.hi) THEN c ELSE tensor[k]]

\* ----------------------------------------------------------------- state
Idle == [kind |-> "idle"]
Built == list # None \/ matrix # None \/ row # None \/ glwe # None \/ tens # None
\* The caller still has its buffer and no Tensor holds a mutable borrow of it.
Unborrowed == cont # None /\ tens = None
Running == ~out.panic /\ job.kind = "idle"

\* The chunk size that the Split call recorded in out gave to chunks_exact.
SplitChunkSize ==
    IF out.op = "into_chunks" THEN out.arg
    ELSE IF out.arg = 0 THEN 1 ELSE Len(cont[1]) \div out.arg

\* The chunk iterator that the Split call recorded in out returned, as its
\* pulls have left it: the iterator, its length when returned, the pulls made.
Chunks ==
    IF job.kind = "chunks" THEN job
    ELSE LET it == ChunksExact_new(Len(cont[1]), SplitChunkSize)
         IN  [kind |-> "chunks", it |-> it, initial |-> ChunksExact_len(it), pulled |-> <<>>]

\* The Split call recorded in out returned an iterator that is still alive.
ChunksAlive ==
    /\ ~out.panic /\ out.op \in {"into_chunks", "split_into"}
    /\ job.kind \in {"idle", "chunks"}

\* The entity that owns the buffer, when one has been built.
HasEntity == list # None \/ matrix # None \/ row # None
Entity == IF list # None THEN list[1] ELSE IF matrix # None THEN matrix[1] ELSE row[1]

Init ==
    /\ checked \in BOOLEAN
    /\ cont \in {None} \cup {Some(c) : c \in Containers}
    /\ list = None
    /\ matrix = None
    /\ row = None
    /\ glwe = None
    /\ tens = None
    /\ glwe_body = None
    /\ out = [op |-> "start", panic |-> FALSE]
    /\ job = Idle

\* <&[T] as Split>::into_chunks and <&mut [T] as Split>::into_chunks on a
\* borrow of the caller's buffer.
IntoChunks ==
    /\ Running /\ Unborrowed
    /\ \E k \in 0..MaxChunk, mutable \in BOOLEAN :
         LET r == into_chunks(Len(cont[1]), k)
         IN  out' = [op |-> "into_chunks", panic |-> r.panic, arg |-> k,
                     mutable |-> mutable, items |-> r.val]
    /\ UNCHANGED <<checked, tens, glwe_body, cont, list, matrix, row, glwe, job>>

SplitInto ==
    /\ Running /\ Unborrowed
    /\ \E n \in 0..MaxChunk, mutable \in BOOLEAN :
         LET r == split_into(Len(cont[1]), n)
         IN  out' = [op |-> "split_into", panic |-> r.panic, arg |-> n,
                     mutable |-> mutable, items |-> r.val]
    /\ UNCHANGED <<checked, tens, glwe_body, cont, list, matrix, row, glwe, job>>

Allocate ==
    /\ Running /\ cont = None /\ ~Built
    /\ \E value \in Elem, poly_size \in PolynomialSizes,
          glwe_dimension \in GlweDimensions, ciphertext_number \in CiphertextCounts :
         /\ list' = Some(GlweList_allocate(value, poly_size, glwe_dimension, ciphertext_number))
         /\ out' = [op |-> "allocate", panic |-> FALSE,
                    arg |-> [value |-> value, poly_size |-> poly_size,
                             glwe_dimension |-> glwe_dimension,
                             ciphertext_number |-> ciphertext_number]]
    /\ UNCHANGED <<checked, tens, glwe_body, cont, matrix, row, glwe, job>>

GlweListFromContainer ==
    /\ Running /\ Unborrowed
    /\ \E rlwe_dimension \in GlweDimensions, poly_size \in PolynomialSizes :
         LET r == GlweList_from_container(cont[1], rlwe_dimension, poly_size)
         IN  /\ out' = [op |-> "GlweList::from_container", panic |-> r.panic,
                        arg |-> [rlwe_dimension |-> rlwe_dimension, poly_size |-> poly_size,
                                 len |-> Len(cont[1])]]
             /\ IF r.panic THEN UNCHANGED <<cont, list>>
                ELSE list' = Some(r.val) /\ cont' = None
    /\ UNCHANGED <<checked, tens, glwe_body, matrix, row, glwe, job>>

CiphertextIter ==
    /\ Running /\ list # None
    /\ \E mutable \in BOOLEAN :
         LET r == GlweList_ciphertext_iter(list[1])
         IN  out' = [op |-> "ciphertext_iter", panic |-> r.panic,
                     mutable |-> mutable, items |-> r.val]
    /\ UNCHANGED <<checked, tens, glwe_body, cont, list, matrix, row, glwe, job>>

\* GlweList::fill_with_trivial_encryption up to its loop: the assertion, then
\* the two iterators that the loop zips.
BeginTrivialEncryption ==
    /\ Running /\ list # None
    /\ \E plaintexts \in PlaintextLists :
         LET l == list[1]
             cts == GlweList_ciphertext_iter(l)
             pts == PlaintextList_sublist_iter(plaintexts, GlweList_plaintext_count(l))
             failed == \/ ~DebugAssert(GlweList_trivial_precondition(l, plaintexts))
                       \/ cts.panic
                       \/ pts.panic
         IN  /\ out' = [op |-> "fill_with_trivial_encryption", panic |-> failed,
                        before |-> l.tensor, plaintexts |-> plaintexts]
             /\ job' = IF failed THEN Idle
                       ELSE [kind |-> "trivial", plaintexts |-> plaintexts,
                             cts |-> cts.val, pts |-> pts.val, log |-> <<>>]
    /\ UNCHANGED <<checked, tens, glwe_body, cont, list, matrix, row, glwe>>

\* One turn of the loop: the next ciphertext and the next plaintext sub-list.
TrivialEncryptionStep ==
    /\ ~out.panic /\ job.kind = "trivial"
    /\ Len(job.log) < Min(Len(job.cts), Len(job.pts))
    /\ LET i == Len(job.log) + 1
           ct == job.cts[i]
           pt == job.pts[i]
       IN  /\ list' = Some([list[1] EXCEPT !.tensor =
                   GlweCiphertext_fill_with_trivial_encryption(
                       @, ct, Slice(job.plaintexts, pt.lo, pt.hi))])
           /\ job' = [job EXCEPT !.log = Append(@, [ct |-> ct, pt |-> pt])]
    /\ UNCHANGED <<checked, tens, glwe_body, cont, matrix, row, glwe, out>>

GgswLevelMatrixFromContainer ==
    /\ Running /\ Unborrowed
    /\ \E poly_size \in PolynomialSizes, rlwe_size \in GlweSizes, level \in DecompositionLevels :
         LET r == GgswLevelMatrix_from_container(cont[1], poly_size, rlwe_size, level)
         IN  /\ out' = [op |-> "GgswLevelMatrix::from_container", panic |-> r.panic,
                        arg |-> [poly_size |-> poly_size, rlwe_size |-> rlwe_size,
                                 level |-> level, len |-> Len(cont[1])]]
             /\ IF r.panic THEN UNCHANGED <<cont, matrix>>
                ELSE matrix' = Some(r.val) /\ cont' = None
    /\ UNCHANGED <<checked, tens, glwe_body, list, row, glwe, job>>

RowIter ==
    /\ Running /\ matrix # None
    /\ \E mutable \in BOOLEAN :
         LET r == GgswLevelMatrix_row_iter(matrix[1])
         IN  out' = [op |-> "row_iter", panic |-> r.panic,
                     mutable |-> mutable, items |-> r.val]
    /\ UNCHANGED <<checked, tens, glwe_body, cont, list, matrix, row, glwe, job>>

\* The rows of row_iter_mut (par = FALSE) or par_row_iter_mut (par = TRUE),
\* each to be filled with c by fill_with_element.
BeginFill ==
    /\ Running /\ matrix # None
    /\ \E c \in FillValues, par \in BOOLEAN :
         LET r == IF par THEN GgswLevelMatrix_par_row_iter_mut(matrix[1])
                  ELSE GgswLevelMatrix_row_iter(matrix[1])
         IN  /\ out' = [op |-> "fill_rows", panic |-> r.panic]
             /\ job' = IF r.panic THEN Idle
                       ELSE [kind |-> "fill", par |-> par, c |-> c, rows |-> r.val,
                             before |-> matrix[1].tensor,
                             pending |-> 1..Len(r.val),
                             handed |-> [i \in 1..Len(r.val) |-> 0],
                             held |-> [w \in Workers |-> 0],
                             pos |-> [w \in Workers |-> 0],
                             finished |-> {}]
    /\ UNCHANGED <<checked, tens, glwe_body, cont, list, matrix, row, glwe>>

\* A worker receives a row.  The sequential iterator hands the rows to the one
\* caller in buffer order; the parallel one hands any pending row to any idle
\* worker.
TakeRow(w) ==
    /\ ~out.panic /\ job.kind = "fill"
    /\ job.held[w] = 0
    /\ \E r \in job.pending :
         /\ job.par \/ (w = 1 /\ \A q \in job.pending : r <= q)
         /\ job' = [job EXCEPT !.pending = @ \ {r}, !.handed[r] = @ + 1,
                                !.held[w] = r, !.pos[w] = 0]
    /\ UNCHANGED <<checked, tens, glwe_body, cont, list, matrix, row, glwe, out>>

\* The worker writes the next element of its row; after the last one the row
\* is dropped and the worker is free again.
WriteElem(w) ==
    /\ ~out.panic /\ job.kind = "fill"
    /\ job.held[w] # 0
    /\ LET r == job.rows[job.held[w]]
           last == job.pos[w] + 1 = r.hi - r.lo
       IN  /\ matrix' = Some([matrix[1] EXCEPT !.tensor =
                   fill_with_element_at(@, r, job.pos[w], job.c)])
           /\ job' = IF last
                     THEN [job EXCEPT !.held[w] = 0, !.pos[w] = 0,
                                      !.finished = @ \cup {job.held[w]}]
                     ELSE [job EXCEPT !.pos[w] = @ + 1]
    /\ UNCHANGED <<checked, tens, glwe_body, cont, list, row, glwe, out>>

GgswLevelRowFromContainer ==
    /\ Running /\ Unborrowed
    /\ \E poly_size \in PolynomialSizes, level \in DecompositionLevels :
         LET r == GgswLevelRow_from_container([lo |-> 0, hi |-> Len(cont[1])], poly_size, level)
         IN  /\ out' = [op |-> "GgswLevelRow::from_container", panic |-> r.panic,
                        arg |-> [poly_size |-> poly_size, level |-> level,
                                 len |-> Len(cont[1])]]
             /\ IF r.panic THEN UNCHANGED <<cont, row>>
                ELSE /\ row' = Some([tensor |-> cont[1], lo |-> 0, hi |-> Len(cont[1]),
                                     poly_size |-> poly_size, level |-> level])
                     /\ cont' = None
    /\ UNCHANGED <<checked, tens, glwe_body, list, matrix, glwe, job>>

IntoGlwe ==
    /\ Running /\ row # None
    /\ glwe' = Some(GgswLevelRow_into_glwe(row[1]))
    /\ row' = None
    /\ out' = [op |-> "into_glwe", panic |-> FALSE, arg |-> row[1]]
    /\ UNCHANGED <<checked, tens, glwe_body, cont, list, matrix, job>>

\* Tensor::allocate(value, size).
TensorAllocate ==
    /\ Running /\ cont = None /\ ~Built
    /\ \E value \in Elem, size \in 0..MaxLen :
         /\ tens' = Some([borrowed |-> FALSE, buf |-> Tensor_allocate(value, size)])
         /\ out' = [op |-> "Tensor::allocate", panic |-> FALSE,
                    arg |-> [value |-> value, size |-> size]]
    /\ UNCHANGED <<checked, cont, list, matrix, row, glwe, glwe_body, job>>

\* Tensor::from_container(cont.as_mut_slice()): the buffer stays the caller's.
TensorFromContainer ==
    /\ Running /\ Unborrowed
    /\ tens' = Some([borrowed |-> TRUE])
    /\ out' = [op |-> "Tensor::from_container", panic |-> FALSE]
    /\ UNCHANGED <<checked, cont, list, matrix, row, glwe, glwe_body, job>>

\* tensor.update_with_wrapping_add(&other), the one binary operation of the run.
UpdateWithWrappingAdd ==
    /\ Running /\ tens # None
    /\ out.op \in {"Tensor::allocate", "Tensor::from_container"}
    /\ \E other \in Operands :
         LET before == Tensor_as_slice(tens[1])
             r == Tensor_update_with_wrapping_add(before, other)
         IN  /\ out' = [op |-> "update_with_wrapping_add", panic |-> r.panic,
                        before |-> before, operands |-> <<other>>]
             /\ IF r.panic THEN UNCHANGED <<cont, tens>> ELSE Tensor_store(r.val)
    /\ UNCHANGED <<checked, list, matrix, row, glwe, glwe_body, job>>

\* tensor.fill_with_two(&t1, &t2, f), the one binary operation of the run.
FillWithTwo ==
    /\ Running /\ tens # None
    /\ out.op \in {"Tensor::allocate", "Tensor::from_container"}
    /\ \E t1 \in Operands, t2 \in Operands, f \in BinaryOps :
         LET before == Tensor_as_slice(tens[1])
             r == Tensor_fill_with_two(before, t1, t2, f)
         IN  /\ out' = [op |-> "fill_with_two", panic |-> r.panic,
                        before |-> before, operands |-> <<t1, t2>>, f |-> f]
             /\ IF r.panic THEN UNCHANGED <<cont, tens>> ELSE Tensor_store(r.val)
    /\ UNCHANGED <<checked, list, matrix, row, glwe, glwe_body, job>>

\* items[i].as_mut_tensor().as_mut_slice()[j] = c on the i-th item of the last
\* ciphertext_iter_mut or row_iter_mut: one write, then the views are dropped.
WriteThroughView ==
    /\ Running /\ out.op \in {"ciphertext_iter", "row_iter"} /\ out.mutable
    /\ \E i \in 1..Len(out.items), c \in FillValues :
         \E j \in 0..(out.items[i].hi - out.items[i].lo - 1) :
           /\ IF out.op = "ciphertext_iter"
              THEN /\ list' = Some([list[1] EXCEPT !.tensor =
                                       fill_with_element_at(@, out.items[i], j, c)])
                   /\ matrix' = matrix
              ELSE /\ matrix' = Some([matrix[1] EXCEPT !.tensor =
                                         fill_with_element_at(@, out.items[i], j, c)])
                   /\ list' = list
           /\ job' = [kind |-> "write", i |-> i, j |-> j, c |-> c,
                      before |-> IF out.op = "ciphertext_iter" THEN list[1].tensor
                                 ELSE matrix[1].tensor]
    /\ UNCHANGED <<checked, tens, glwe_body, cont, row, glwe, out>>

\* glwe.get_body() or glwe.get_mut_body() on a ciphertext that holds at least
\* one polynomial.
GetBody ==
    /\ Running /\ glwe # None /\ glwe_body = None
    /\ glwe[1].hi - glwe[1].lo >= glwe[1].poly_size
    /\ \E mutable \in BOOLEAN :
         glwe_body' = Some([tensor |-> GlweCiphertext_body(glwe[1]), mutable |-> mutable])
    /\ out' = [op |-> "get_body", panic |-> FALSE]
    /\ UNCHANGED <<checked, tens, cont, list, matrix, row, glwe, job>>

AsPolynomial ==
    /\ Running /\ glwe_body # None
    /\ out' = [op |-> "as_polynomial", panic |-> FALSE, body |-> glwe_body[1],
               poly |-> GlweBody_as_polynomial(glwe_body[1])]
    /\ UNCHANGED <<checked, tens, glwe_body, cont, list, matrix, row, glwe, job>>

AsMutPolynomial ==
    /\ Running /\ glwe_body # None /\ glwe_body[1].mutable
    /\ out' = [op |-> "as_mut_polynomial", panic |-> FALSE, body |-> glwe_body[1],
               poly |-> GlweBody_as_mut_polynomial(glwe_body[1])]
    /\ UNCHANGED <<checked, tens, glwe_body, cont, list, matrix, row, glwe, job>>

IntoPolynomial ==
    /\ Running /\ glwe_body # None
    /\ out' = [op |-> "into_polynomial", panic |-> FALSE, body |-> glwe_body[1],
               poly |-> GlweBody_into_polynomial(glwe_body[1])]
    /\ glwe_body' = None
    /\ UNCHANGED <<checked, tens, cont, list, matrix, row, glwe, job>>

\* poly.as_mut_tensor().fill_with_element(c) on the polynomial that
\* as_mut_polynomial just returned.
PolynomialFill ==
    /\ Running /\ out.op = "as_mut_polynomial"
    /\ \E c \in FillValues :
         /\ glwe' = Some([glwe[1] EXCEPT !.tensor =
                             fill_with_element(@, as_mut_tensor(out.poly), c)])
         /\ job' = [kind |-> "poly_fill", c |-> c, before |-> glwe[1].tensor]
    /\ UNCHANGED <<checked, tens, glwe_body, cont, list, matrix, row, out>>

\* entity.as_mut_tensor().as_mut_slice()[j] = c on the entity just constructed.
AsMutTensorWrite ==
    /\ Running /\ HasEntity
    /\ out.op \in {"allocate", "GlweList::from_container",
                   "GgswLevelMatrix::from_container", "GgswLevelRow::from_container"}
    /\ \E c \in FillValues, j \in 0..(tensor_len(as_mut_tensor(Entity)) - 1) :
         LET whole == [lo |-> 0, hi |-> tensor_len(as_mut_tensor(Entity))]
             written == [Entity EXCEPT !.tensor =
                            fill_with_element_at(as_mut_tensor(Entity), whole, j, c)]
         IN  /\ list' = IF list # None THEN Some(written) ELSE list
             /\ matrix' = IF list = None /\ matrix # None THEN Some(written) ELSE matrix
             /\ row' = IF list = None /\ matrix = None THEN Some(written) ELSE row
             /\ job' = [kind |-> "as_mut_tensor", j |-> j, c |-> c,
                        before |-> as_tensor(Entity)]
    /\ out' = [op |-> "as_mut_tensor", panic |-> FALSE]
    /\ UNCHANGED <<checked, tens, glwe_body, cont, glwe>>

\* entity.into_tensor(): the entity is consumed and its Tensor returned by
\* value, straight after construction or after the write through as_mut_tensor.
IntoTensor ==
    /\ ~out.panic /\ job.kind \in {"idle", "as_mut_tensor"} /\ HasEntity
    /\ tens' = Some([borrowed |-> FALSE, buf |-> into_tensor(Entity)])
    /\ out' = [op |-> "into_tensor", panic |-> FALSE, arg |-> Entity]
    /\ list' = None /\ matrix' = None /\ row' = None
    /\ UNCHANGED <<checked, glwe_body, cont, glwe, job>>

\* chunks.next() returning a chunk.
PullFront ==
    /\ ChunksAlive
    /\ LET r == ChunksExact_next(Chunks.it)
       IN  /\ ~r.none
           /\ job' = [Chunks EXCEPT !.it = r.it,
                          !.pulled = Append(@, [end |-> "front", chunk |-> r.chunk])]
    /\ UNCHANGED <<checked, tens, glwe_body, cont, list, matrix, row, glwe, out>>

\* chunks.next_back() returning a chunk.
PullBack ==
    /\ ChunksAlive
    /\ LET r == ChunksExact_next_back(Chunks.it)
       IN  /\ ~r.none
           /\ job' = [Chunks EXCEPT !.it = r.it,
                          !.pulled = Append(@, [end |-> "back", chunk |-> r.chunk])]
    /\ UNCHANGED <<checked, tens, glwe_body, cont, list, matrix, row, glwe, out>>

\* A test draws a shape with one of the test tools before it builds anything.
RandomShape ==
    /\ Running /\ out.op = "start" /\ cont = None /\ ~Built
    /\ \E tool \in FromOne \cup FromTwo, max \in Usize, gen \in Usize :
         LET r == random(tool, max, gen)
         IN  out' = [op |-> "random", panic |-> r.panic, tool |-> tool, max |-> max,
                     gen |-> gen, val |-> r.val]
    /\ UNCHANGED <<checked, tens, glwe_body, cont, list, matrix, row, glwe, job>>

Next ==
    \/ IntoChunks
    \/ SplitInto
    \/ Allocate
    \/ GlweListFromContainer
    \/ CiphertextIter
    \/ BeginTrivialEncryption
    \/ TrivialEncryptionStep
    \/ GgswLevelMatrixFromContainer
    \/ RowIter
    \/ BeginFill
    \/ \E w \in Workers : TakeRow(w)
    \/ \E w \in Workers : WriteElem(w)
    \/ GgswLevelRowFromContainer
    \/ IntoGlwe
    \/ TensorAllocate
    \/ TensorFromContainer
    \/ UpdateWithWrappingAdd
    \/ FillWithTwo
    \/ WriteThroughView
    \/ GetBody
    \/ AsPolynomial
    \/ AsMutPolynomial
    \/ IntoPolynomial
    \/ PolynomialFill
    \/ AsMutTensorWrite
    \/ IntoTensor
    \/ PullFront
    \/ PullBack
    \/ RandomShape

Spec == Init /\ [][Next]_vars

\* ----------------------------------------------------------------- claims
\* The buffer of l holds whole ciphertexts: its length is a multiple of the
\* ciphertext_iter stride.
GlweListWholeCiphertexts(l) == tensor_len(l.tensor) % GlweList_chunks_size(l) = 0

\* The buffer of m holds whole rows: its length is a multiple of the row_iter stride.
MatrixWholeRows(m) == tensor_len(m.tensor) % GgswLevelMatrix_chunks_size(m) = 0

\* Every row of the fill job has been handed out and filled.
FillDone == job.kind = "fill" /\ job.pending = {} /\ \A w \in Workers : job.held[w] = 0

\* The zip of the trivial-encryption loop is exhausted.
TrivialDone == job.kind = "trivial" /\ Len(job.log) = Min(Len(job.cts), Len(job.pts))

\* C1: GlweList::allocate(v, p, d, n) yields a buffer of p*(d+1)*n elements, all
\* equal to v, and the accessors report ciphertext_count n, polynomial_size p,
\* glwe_size d+1 and glwe_dimension d.
C1_AllocateShape ==
    out.op = "allocate" =>
        LET a == out.arg
            l == list[1]
        IN  /\ Len(l.tensor) = a.poly_size * (a.glwe_dimension + 1) * a.ciphertext_number
            /\ \A i \in 1..Len(l.tensor) : l.tensor[i] = a.value
            /\ GlweList_ciphertext_count(l) = Ok(a.ciphertext_number)
            /\ GlweList_polynomial_size(l) = a.poly_size
            /\ GlweList_glwe_size(l) = a.glwe_dimension + 1
            /\ GlweList_glwe_dimension(l) = a.glwe_dimension

C1_Witness ==
    /\ out.op = "allocate" /\ checked
    /\ out.arg.poly_size = 2 /\ out.arg.glwe_dimension = 1 /\ out.arg.ciphertext_number = 2
    /\ Len(list[1].tensor) = 8

\* C2: in a checked build GlweList::from_container rejects every buffer whose
\* length is not a multiple of (glwe_dimension+1) * polynomial_size, so every
\* list it returns has length ciphertext_count * glwe_size * polynomial_size.
C2_FromContainerWholeCiphertexts ==
    (checked /\ out.op = "GlweList::from_container") =>
        /\ out.arg.len % ((out.arg.rlwe_dimension + 1) * out.arg.poly_size) # 0 => out.panic
        /\ ~out.panic =>
               LET l == list[1]
                   count == GlweList_ciphertext_count(l)
               IN  /\ ~count.panic
                   /\ Len(l.tensor) =
                          count.val * GlweList_glwe_size(l) * GlweList_polynomial_size(l)

\* The divisibility precondition of the Split call recorded in out.
SplitPrecondition ==
    LET len == Len(cont[1])
    IN  IF out.op = "into_chunks" THEN out.arg >= 1 /\ len % out.arg = 0
        ELSE IF out.arg = 0 THEN len = 0 ELSE len % out.arg = 0

\* C3: the sub-regions produced by one into_chunks or split_into call on a buffer
\* meeting the divisibility precondition are pairwise disjoint and their union
\* is the whole index range 0..len.
C3_SplitDisjointCover ==
    (out.op \in {"into_chunks", "split_into"} /\ SplitPrecondition) =>
        LET items == IF out.panic THEN <<>> ELSE out.items
        IN  /\ \A i, j \in 1..Len(items) :
                   i # j => Range(items[i].lo, items[i].hi) \cap Range(items[j].lo, items[j].hi) = {}
            /\ UNION {Range(items[i].lo, items[i].hi) : i \in 1..Len(items)}
                   = Range(0, Len(cont[1]))

C3_Witness ==
    /\ out.op = "split_into" /\ ~out.panic /\ out.mutable
    /\ Len(cont[1]) = 6 /\ out.arg = 3 /\ Len(out.items) = 3

\* C4: concatenating, in iteration order, the sub-regions of into_chunks(k) with
\* k >= 1 dividing the length, of ciphertext_iter and of row_iter gives back the
\* buffer exactly.
C4_RoundTrip ==
    /\ (out.op = "into_chunks" /\ ~out.panic /\ out.arg >= 1 /\ Len(cont[1]) % out.arg = 0)
           => Concat(cont[1], out.items) = cont[1]
    /\ (out.op = "ciphertext_iter" /\ ~out.panic /\ GlweListWholeCiphertexts(list[1]))
           => Concat(list[1].tensor, out.items) = list[1].tensor
    /\ (out.op = "row_iter" /\ ~out.panic /\ MatrixWholeRows(matrix[1]))
           => Concat(matrix[1].tensor, out.items) = matrix[1].tensor

C4_Witness ==
    /\ out.op = "into_chunks" /\ ~out.panic /\ out.arg = 2
    /\ cont[1] = Ramp(6) /\ Len(out.items) = 3

\* C5: ciphertext_iter and ciphertext_iter_mut yield exactly ciphertext_count()
\* items, the i-th (from 0) being a ciphertext of polynomial size p over the
\* parent indices [i*s*p, (i+1)*s*p).
C5_CiphertextIterBufferOrder ==
    (out.op = "ciphertext_iter" /\ ~out.panic /\ GlweListWholeCiphertexts(list[1])) =>
        LET l == list[1]
            s == GlweList_glwe_size(l)
            p == GlweList_polynomial_size(l)
        IN  /\ GlweList_ciphertext_count(l) = Ok(Len(out.items))
            /\ \A i \in 1..Len(out.items) :
                   out.items[i] = [lo |-> (i - 1) * s * p, hi |-> i * s * p, poly_size |-> p]

C5_Witness ==
    /\ out.op = "ciphertext_iter" /\ ~out.panic /\ out.mutable
    /\ list[1].rlwe_size = 2 /\ list[1].poly_size = 2 /\ Len(out.items) = 2

\* C6: a GgswLevelMatrix over a buffer of length p*g*g yields exactly g rows from
\* row_iter and row_iter_mut, each reporting glwe_size g, polynomial_size p and
\* the decomposition level of the matrix.
C6_RowIterShape ==
    (out.op = "row_iter"
        /\ Len(matrix[1].tensor) = matrix[1].poly_size * matrix[1].glwe_size * matrix[1].glwe_size) =>
        LET m == matrix[1]
        IN  /\ ~out.panic
            /\ Len(out.items) = GgswLevelMatrix_glwe_size(m)
            /\ \A i \in 1..Len(out.items) :
                   /\ GgswLevelRow_glwe_size(out.items[i]) = Ok(GgswLevelMatrix_glwe_size(m))
                   /\ GgswLevelRow_polynomial_size(out.items[i]) = GgswLevelMatrix_polynomial_size(m)
                   /\ GgswLevelRow_decomposition_level(out.items[i])
                          = GgswLevelMatrix_decomposition_level(m)

C6_Witness ==
    /\ out.op = "row_iter" /\ ~out.panic /\ checked
    /\ matrix[1].poly_size = 1 /\ matrix[1].glwe_size = 2
    /\ Len(matrix[1].tensor) = 4 /\ Len(out.items) = 2

\* C7: for every GgswLevelMatrix accepted by from_container in a checked build,
\* the buffer length is polynomial_size * glwe_size * glwe_size and row_iter
\* yields glwe_size rows.
C7_MatrixIsSquare ==
    (checked /\ matrix # None) =>
        LET m == matrix[1]
        IN  /\ Len(m.tensor) = GgswLevelMatrix_polynomial_size(m)
                                  * GgswLevelMatrix_glwe_size(m) * GgswLevelMatrix_glwe_size(m)
            /\ (out.op = "row_iter" /\ ~out.panic)
                   => Len(out.items) = GgswLevelMatrix_glwe_size(m)

\* C8: once every row has been filled with c through row_iter_mut or
\* par_row_iter_mut, every element of the matrix buffer is c, and the buffer is
\* the one the sequential loop produces, whatever the schedule of the workers.
C8_FillRows ==
    (FillDone /\ MatrixWholeRows(matrix[1])) =>
        /\ \A i \in 1..Len(matrix[1].tensor) : matrix[1].tensor[i] = job.c
        /\ matrix[1].tensor = fill_rows(job.before, job.rows, job.c)

C8_Witness ==
    /\ FillDone /\ job.par /\ Len(job.rows) = 2
    /\ matrix[1].glwe_size = 2 /\ job.before = Ramp(4) /\ job.c = Modulus - 1

\* C9: into_glwe keeps the polynomial size, the GLWE size, the buffer length and
\* every element of the row; only the decomposition level is dropped.
C9_IntoGlwe ==
    out.op = "into_glwe" =>
        LET r == out.arg
            g == glwe[1]
        IN  /\ GlweCiphertext_polynomial_size(g) = GgswLevelRow_polynomial_size(r)
            /\ GgswLevelRow_glwe_size(r) = Ok(GlweCiphertext_size(g))
            /\ g.tensor = r.tensor
            /\ g.lo = r.lo /\ g.hi = r.hi
            /\ DOMAIN g = {"tensor", "lo", "hi", "poly_size"}

C9_Witness ==
    /\ out.op = "into_glwe" /\ glwe # None
    /\ glwe[1].tensor = Ramp(6) /\ glwe[1].poly_size = 2

\* C10: with plaintext count p * ciphertext_count(), fill_with_trivial_encryption
\* pairs ciphertext i with plaintexts [i*p, (i+1)*p) in buffer order, handles
\* every ciphertext exactly once, and leaves sub-list i in the body of ciphertext
\* i, writing it inside that ciphertext only.
C10_TrivialEncryptionPairs ==
    (job.kind = "trivial" /\ GlweListWholeCiphertexts(list[1])
        /\ GlweList_trivial_precondition(list[1], job.plaintexts)) =>
        LET l == list[1]
            s == GlweList_glwe_size(l)
            p == GlweList_polynomial_size(l)
        IN  /\ \A i \in 1..Len(job.log) :
                   /\ job.log[i].ct = [lo |-> (i - 1) * s * p, hi |-> i * s * p, poly_size |-> p]
                   /\ job.log[i].pt = [lo |-> (i - 1) * p, hi |-> i * p]
                   /\ Slice(l.tensor, i * s * p - p, i * s * p)
                          = Slice(job.plaintexts, (i - 1) * p, i * p)
            /\ TrivialDone => GlweList_ciphertext_count(l) = Ok(Len(job.log))

C10_Witness ==
    /\ TrivialDone /\ checked /\ Len(job.log) = 2
    /\ list[1].rlwe_size = 2 /\ list[1].poly_size = 2

\* C11: split_into(0) on an empty buffer yields an empty sequence of chunks; on
\* a non-empty buffer a checked build rejects it by assertion; the same holds
\* for the read-only and the mutable borrow.
C11_SplitIntoZero ==
    (out.op = "split_into" /\ out.arg = 0) =>
        /\ Len(cont[1]) = 0 => (~out.panic /\ out.items = <<>>)
        /\ (checked /\ Len(cont[1]) # 0) => out.panic

C11_Witness ==
    /\ out.op = "split_into" /\ out.arg = 0 /\ out.mutable
    /\ checked /\ Len(cont[1]) = 3 /\ out.panic

\* C12: on a buffer of any length L, 0 included, into_chunks(k) with k dividing
\* L yields L/k sub-regions of length k and split_into(n) with n dividing L
\* yields n sub-regions of length L/n.
C12_SplitCounts ==
    (out.op \in {"into_chunks", "split_into"} /\ SplitPrecondition) =>
        LET len == Len(cont[1])
            count == IF out.op = "into_chunks" THEN len \div out.arg ELSE out.arg
            size == IF out.op = "into_chunks" THEN out.arg
                    ELSE IF out.arg = 0 THEN 0 ELSE len \div out.arg
        IN  /\ ~out.panic
            /\ Len(out.items) = count
            /\ \A i \in 1..Len(out.items) : out.items[i].hi - out.items[i].lo = size

\* C13: in a checked build update_with_wrapping_add and fill_with_two on
\* operands of unequal length are rejected by the equal-length assertion, and
\* the target keeps its length and its elements.
C13_UnequalLengthsRejected ==
    (checked /\ out.op \in {"update_with_wrapping_add", "fill_with_two"}
        /\ \E i \in 1..Len(out.operands) : Len(out.operands[i]) # Len(out.before)) =>
        /\ out.panic
        /\ Tensor_as_slice(tens[1]) = out.before

C13_Witness ==
    /\ checked /\ out.op = "fill_with_two" /\ out.panic
    /\ tens[1].borrowed /\ cont[1] = Ramp(3)
    /\ Len(out.operands[1]) = 3 /\ Len(out.operands[2]) = 2

\* C14: Tensor::allocate(x, n) holds n copies of x; update_with_wrapping_add
\* with an operand b of the same length leaves (a_i + b_i) mod 2^w in element i
\* of the target and keeps its length, in the caller's buffer when the target
\* is a mutable borrow of it.
C14_WrappingAdd ==
    /\ out.op = "Tensor::allocate" =>
           /\ Len(tens[1].buf) = out.arg.size
           /\ \A i \in 1..Len(tens[1].buf) : tens[1].buf[i] = out.arg.value
    /\ (out.op = "update_with_wrapping_add" /\ Len(out.operands[1]) = Len(out.before)) =>
           LET now == IF tens[1].borrowed THEN cont[1] ELSE tens[1].buf
           IN  /\ ~out.panic
               /\ Len(now) = Len(out.before)
               /\ \A i \in 1..Len(now) :
                      now[i] = (out.before[i] + out.operands[1][i]) % (2 ^ ElemBits)

C14_Witness ==
    /\ out.op = "update_with_wrapping_add" /\ ~out.panic
    /\ tens[1].borrowed /\ out.before = Ramp(3) /\ cont[1] = <<0, 0, 0>>

\* What the shape accessors and the buffer length of an entity report.
GlweListShape(l) ==
    <<GlweList_polynomial_size(l), GlweList_glwe_size(l), GlweList_glwe_dimension(l),
      GlweList_ciphertext_count(l), tensor_len(l.tensor)>>

GgswLevelMatrixShape(m) ==
    <<GgswLevelMatrix_polynomial_size(m), GgswLevelMatrix_glwe_size(m),
      GgswLevelMatrix_decomposition_level(m), tensor_len(m.tensor)>>

GgswLevelRowShape(r) ==
    <<GgswLevelRow_polynomial_size(r), GgswLevelRow_glwe_size(r),
      GgswLevelRow_decomposition_level(r), tensor_len(r.tensor)>>

\* The entity returned by from_container reports the shape it was given.
DeclaredShape ==
    /\ (out.op = "GlweList::from_container" /\ ~out.panic) =>
           /\ GlweList_polynomial_size(list[1]) = out.arg.poly_size
           /\ GlweList_glwe_dimension(list[1]) = out.arg.rlwe_dimension
           /\ GlweList_glwe_size(list[1]) = out.arg.rlwe_dimension + 1
           /\ tensor_len(list[1].tensor) = out.arg.len
    /\ (out.op = "GgswLevelMatrix::from_container" /\ ~out.panic) =>
           /\ GgswLevelMatrix_polynomial_size(matrix[1]) = out.arg.poly_size
           /\ GgswLevelMatrix_glwe_size(matrix[1]) = out.arg.rlwe_size
           /\ GgswLevelMatrix_decomposition_level(matrix[1]) = out.arg.level
           /\ tensor_len(matrix[1].tensor) = out.arg.len
    /\ (out.op = "GgswLevelRow::from_container" /\ ~out.panic) =>
           /\ GgswLevelRow_polynomial_size(row[1]) = out.arg.poly_size
           /\ GgswLevelRow_decomposition_level(row[1]) = out.arg.level
           /\ tensor_len(row[1].tensor) = out.arg.len

\* No step changes what an entity reports.
ShapeKept ==
    /\ (list # None /\ list' # None) => GlweListShape(list'[1]) = GlweListShape(list[1])
    /\ (matrix # None /\ matrix' # None) =>
           GgswLevelMatrixShape(matrix'[1]) = GgswLevelMatrixShape(matrix[1])
    /\ (row # None /\ row' # None) => GgswLevelRowShape(row'[1]) = GgswLevelRowShape(row[1])

\* C15: an entity built by from_container reports the shape it was built with,
\* and every accessor and the buffer length keep their value through every
\* later call, iteration and write through a mutable view.
C15_ShapeStable == [](DeclaredShape) /\ [][ShapeKept]_vars

C15_Witness ==
    /\ FillDone /\ ~job.par /\ job.c = 0 /\ job.before = Ramp(4)
    /\ matrix[1].tensor = Zeros(4)
    /\ GgswLevelMatrixShape(matrix[1]) = <<1, 2, 1, 4>>

\* C16: par_row_iter_mut hands out the rows of row_iter_mut; at every moment
\* each row is pending, held by exactly one worker or finished, it is handed
\* out at most once and exactly once by the end, and the rows held by two
\* workers share no buffer index.
C16_ParallelRows ==
    (job.kind = "fill" /\ job.par) =>
        LET sequential == GgswLevelMatrix_row_iter(matrix[1])
            all == 1..Len(job.rows)
            holders(r) == {w \in Workers : job.held[w] = r}
        IN  /\ ~sequential.panic
            /\ {job.rows[r] : r \in all} = {sequential.val[r] : r \in 1..Len(sequential.val)}
            /\ Len(job.rows) = Len(sequential.val)
            /\ \A r \in all :
                   /\ job.handed[r] = IF r \in job.pending THEN 0 ELSE 1
                   /\ Cardinality(holders(r)) <= 1
                   /\ (r \in job.pending) => (holders(r) = {} /\ r \notin job.finished)
                   /\ (r \in job.finished) => holders(r) = {}
                   /\ (r \notin job.pending /\ r \notin job.finished) => holders(r) # {}
            /\ \A v, w \in Workers :
                   (v # w /\ job.held[v] # 0 /\ job.held[w] # 0) =>
                       Range(job.rows[job.held[v]].lo, job.rows[job.held[v]].hi)
                           \cap Range(job.rows[job.held[w]].lo, job.rows[job.held[w]].hi) = {}
            /\ FillDone => (job.finished = all /\ \A r \in all : job.handed[r] = 1)

C16_Witness ==
    /\ job.kind = "fill" /\ job.par /\ Len(job.rows) = 2
    /\ job.held[1] = 2 /\ job.held[2] = 1 /\ job.pos[1] = 1 /\ job.pos[2] = 1

\* The call recorded in out broke its shape precondition.
ShapeViolated ==
    \/ /\ out.op = "GlweList::from_container"
       /\ out.arg.len % ((out.arg.rlwe_dimension + 1) * out.arg.poly_size) # 0
    \/ /\ out.op = "GgswLevelMatrix::from_container"
       /\ out.arg.len % (out.arg.rlwe_size * out.arg.poly_size) # 0
    \/ /\ out.op = "GgswLevelRow::from_container"
       /\ out.arg.len % out.arg.poly_size # 0
    \/ /\ out.op = "fill_with_trivial_encryption"
       /\ ~GlweList_trivial_precondition(list[1], out.plaintexts)

\* C17: a call that breaks its shape precondition aborts in a checked build,
\* returning no entity and writing no element, and goes on to return or write
\* in an unchecked build.
C17_AbortOnlyWhenChecked ==
    ShapeViolated =>
        IF checked
        THEN /\ out.panic
             /\ out.op = "fill_with_trivial_encryption" =>
                    (list[1].tensor = out.before /\ job.kind = "idle")
             /\ out.op # "fill_with_trivial_encryption" =>
                    (list = None /\ matrix = None /\ row = None)
        ELSE ~out.panic

\* C18: a write to element j of the i-th view of ciphertext_iter_mut or
\* row_iter_mut, of stride k, puts the value at index i*k + j of the parent's
\* buffer and leaves every other element and the length as they were.
C18_WriteThroughView ==
    job.kind = "write" =>
        LET now == IF out.op = "ciphertext_iter" THEN list[1].tensor ELSE matrix[1].tensor
            k == IF out.op = "ciphertext_iter"
                 THEN GlweList_glwe_size(list[1]) * GlweList_polynomial_size(list[1])
                 ELSE GgswLevelMatrix_polynomial_size(matrix[1])
                          * GgswLevelMatrix_glwe_size(matrix[1])
            index == (job.i - 1) * k + job.j
        IN  /\ Len(now) = Len(job.before)
            /\ index + 1 \in 1..Len(now)
            /\ now[index + 1] = job.c
            /\ \A n \in 1..Len(now) : n # index + 1 => now[n] = job.before[n]

C18_Witness ==
    /\ job.kind = "write" /\ out.op = "row_iter" /\ job.i = 2 /\ job.j = 1 /\ job.c = 0
    /\ matrix[1].poly_size = 1 /\ matrix[1].glwe_size = 2
    /\ job.before = Ramp(4) /\ matrix[1].tensor = <<0, 1, 2, 0>>

\* C19: every GgswLevelRow that from_container accepts in a checked build has
\* glwe_size() = length / p and glwe_size() * polynomial_size() = length, and a
\* length that is not a multiple of p is rejected.
C19_RowShape ==
    checked =>
        /\ (out.op = "GgswLevelRow::from_container" /\ out.arg.len % out.arg.poly_size # 0)
               => (out.panic /\ row = None)
        /\ row # None =>
               LET r == row[1]
                   p == GgswLevelRow_polynomial_size(r)
               IN  /\ GgswLevelRow_glwe_size(r) = Ok(tensor_len(r.tensor) \div p)
                   /\ GgswLevelRow_glwe_size(r).val * p = tensor_len(r.tensor)
        /\ (out.op = "row_iter" /\ ~out.panic) =>
               \A i \in 1..Len(out.items) :
                   LET r == out.items[i]
                       p == GgswLevelRow_polynomial_size(r)
                   IN  /\ GgswLevelRow_glwe_size(r) = Ok((r.hi - r.lo) \div p)
                       /\ GgswLevelRow_glwe_size(r).val * p = r.hi - r.lo

C19_Witness ==
    /\ checked /\ out.op = "GgswLevelRow::from_container" /\ ~out.panic
    /\ out.arg.poly_size = 2 /\ tensor_len(row[1].tensor) = 6
    /\ GgswLevelRow_glwe_size(row[1]) = Ok(3)

\* C20: the polynomial that as_polynomial, as_mut_polynomial or into_polynomial
\* returns covers the whole buffer of the body: its size is the length of that
\* buffer, which is the polynomial size of the ciphertext, its coefficients are
\* the elements of the body index by index, and filling the polynomial of
\* as_mut_polynomial with c leaves every element of the body equal to c.
C20_BodyPolynomial ==
    /\ out.op \in {"as_polynomial", "as_mut_polynomial", "into_polynomial"} =>
           LET elements == Slice(glwe[1].tensor, out.body.tensor.lo, out.body.tensor.hi)
               coefficients == Slice(glwe[1].tensor, out.poly.tensor.lo, out.poly.tensor.hi)
           IN  /\ Polynomial_polynomial_size(out.poly) = Len(elements)
               /\ Len(elements) = GlweCiphertext_polynomial_size(glwe[1])
               /\ out.poly.tensor.lo = out.body.tensor.lo
               /\ coefficients = elements
    /\ job.kind = "poly_fill" =>
           /\ \A k \in Range(out.body.tensor.lo, out.body.tensor.hi) :
                  glwe[1].tensor[k + 1] = job.c
           /\ Len(glwe[1].tensor) = Len(job.before)

C20_Witness ==
    /\ job.kind = "poly_fill" /\ job.c = Modulus - 1 /\ job.before = Ramp(6)
    /\ glwe[1].poly_size = 2 /\ glwe[1].tensor[5] = Modulus - 1 /\ glwe[1].tensor[6] = Modulus - 1
    /\ glwe[1].tensor[4] = 3

\* C21: as_tensor, as_mut_tensor and into_tensor of an entity all give its one
\* backing tensor, with the same length and the same elements in the same
\* order; a write through as_mut_tensor is seen by a later as_tensor and by
\* into_tensor.
C21_TensorViews ==
    /\ HasEntity =>
           /\ as_tensor(Entity) = Entity.tensor
           /\ as_mut_tensor(Entity) = as_tensor(Entity)
           /\ into_tensor(Entity) = as_tensor(Entity)
    /\ (job.kind = "as_mut_tensor" /\ HasEntity) =>
           /\ tensor_len(as_tensor(Entity)) = tensor_len(job.before)
           /\ \A k \in 1..Len(job.before) :
                  as_tensor(Entity)[k] = IF k = job.j + 1 THEN job.c ELSE job.before[k]
    /\ out.op = "into_tensor" =>
           /\ tens[1].buf = out.arg.tensor
           /\ job.kind = "as_mut_tensor" =>
                  /\ Len(tens[1].buf) = Len(job.before)
                  /\ \A k \in 1..Len(job.before) :
                         tens[1].buf[k] = IF k = job.j + 1 THEN job.c ELSE job.before[k]

C21_Witness ==
    /\ out.op = "into_tensor" /\ job.kind = "as_mut_tensor"
    /\ job.before = Ramp(4) /\ job.j = 2 /\ job.c = Modulus - 1
    /\ tens[1].buf = <<0, 1, Modulus - 1, 3>>
    /\ DOMAIN out.arg = {"tensor", "poly_size", "glwe_size", "level"}

\* C22: after any interleaving of pulls from the front and from the back of the
\* chunk iterator of a Split call, len() is the initial chunk count minus the
\* number of chunks pulled, the m-th front pull is the m-th chunk of the buffer
\* and the m-th back pull the m-th from the end, no chunk comes twice, next()
\* and next_back() return None exactly when len() is 0, and by then every chunk
\* has been yielded.
C22_ChunksBidirectional ==
    ChunksAlive =>
        LET st == Chunks
            n == st.initial
            nth(i) == Cardinality({q \in 1..i : st.pulled[q].end = st.pulled[i].end})
        IN  /\ n = Len(out.items)
            /\ ChunksExact_len(st.it) = n - Len(st.pulled)
            /\ \A i \in 1..Len(st.pulled) :
                   st.pulled[i].chunk = IF st.pulled[i].end = "front" THEN out.items[nth(i)]
                                        ELSE out.items[n + 1 - nth(i)]
            /\ \A i, j \in 1..Len(st.pulled) : i # j => st.pulled[i].chunk # st.pulled[j].chunk
            /\ ChunksExact_next(st.it).none <=> ChunksExact_len(st.it) = 0
            /\ ChunksExact_next_back(st.it).none <=> ChunksExact_len(st.it) = 0
            /\ ChunksExact_len(st.it) = 0 =>
                   {st.pulled[i].chunk : i \in 1..Len(st.pulled)}
                       = {out.items[i] : i \in 1..Len(out.items)}

C22_Witness ==
    /\ ChunksAlive /\ out.op = "into_chunks" /\ out.arg = 2 /\ Len(cont[1]) = 6
    /\ job.kind = "chunks" /\ ChunksExact_len(job.it) = 0
    /\ job.pulled = <<[end |-> "front", chunk |-> [lo |-> 0, hi |-> 2]],
                      [end |-> "back", chunk |-> [lo |-> 4, hi |-> 6]],
                      [end |-> "back", chunk |-> [lo |-> 2, hi |-> 4]]>>

\* C23: for every max other than 0 each test-tool generator returns, without
\* failing, a value in its documented range, [1; max] or [2; max]; max = 0 is
\* the only input rejected.
C23_RandomInRange ==
    out.op = "random" =>
        IF out.max = 0 THEN out.panic
        ELSE /\ ~out.panic
             /\ out.val \in (IF out.tool \in FromOne THEN 1 ELSE 2)..out.max

\* C24: in an unchecked build into_chunks(k), k >= 1, on a buffer of a length L
\* that is not a multiple of k returns floor(L / k) chunks of length k over the
\* indices [0, k*floor(L/k)); the last L mod k indices are in no chunk.
C24_UncheckedRemainder ==
    (~checked /\ out.op = "into_chunks" /\ out.arg >= 1 /\ Len(cont[1]) % out.arg # 0) =>
        LET len == Len(cont[1])
            k == out.arg
            count == len \div k
        IN  /\ ~out.panic
            /\ Len(out.items) = count
            /\ \A i \in 1..count : out.items[i] = [lo |-> (i - 1) * k, hi |-> i * k]
            /\ UNION {Range(out.items[i].lo, out.items[i].hi) : i \in 1..count}
                   = Range(0, k * count)
            /\ \A index \in Range(k * count, len) :
                   \A i \in 1..count : index \notin Range(out.items[i].lo, out.items[i].hi)
            /\ Chunks.initial = count

C24_Witness ==
    /\ ~checked /\ out.op = "into_chunks" /\ ~out.panic /\ out.mutable
    /\ out.arg = 2 /\ Len(cont[1]) = 5 /\ Len(out.items) = 2
====
